---- MODULE Spec2Model ----
(***************************************************************************)
(* A model of AgenticChunker (src/chunker/agentic.py): the in-memory       *)
(* cluster store self.chunks, the files of the cache directory, and the    *)
(* operations add_proposition, load_data_to_chunks, save_chunks,           *)
(* load_chunks and clear_cache.                                            *)
(*                                                                         *)
(* self.chunks is a Python dict, which keeps insertion order: it is a      *)
(* sequence of entries, each its key and the fields of the chunk record.   *)
(* A proposition occurrence is named by its arrival number (the code never *)
(* compares two proposition texts).  uuid.uuid4() is a fresh identifier.   *)
(* An LLM call (BaseLLM.answer) returns a text chosen by the environment   *)
(* or raises.  Opening and writing a file succeeds or raises.              *)
(***************************************************************************)
EXTENDS Integers, Sequences, FiniteSets, TLC

\* ------------------------------------------------------------------ bounds
MaxProps == 2           \* proposition occurrences over the whole behaviour
MaxFaults == 1          \* LLM calls and file writes that raise, over the whole behaviour

\* ------------------------------------------------------------- value sets
None == "None"
Outcomes == {"ok", "raise"}                \* an LLM call returns or raises
Texts == {"T1", "T2"}                      \* page_content values
PageSet == {[source |-> "a.pdf", page |-> 0, text |-> "T1"],
            [source |-> "a.pdf", page |-> 1, text |-> "T2"]}
IO == {"ok", "oserror", "partial"}         \* open(path,'w'), json.dump: done, open raised, dump raised

\* no page: the loop of load_data_to_chunks is not inside its body
NoPage == [source |-> "", page |-> 0, text |-> ""]

\* -------------------------------------------------------------- the state
VARIABLES
  chunks,        \* self.chunks
  cacheFiles,    \* <cache_dir>/<doc_hash>.json, one per document hash
  allChunks,     \* <cache_dir>/all_chunks.json
  nextId,        \* uuids handed out so far, plus one
  nextProp,      \* proposition occurrences seen so far, plus one
  pc,            \* where load_data_to_chunks stands: idle, or at the loop head
                 \* (page), or in the loop body (extract, props, finish)
  page,          \* the page the loop body is processing (NoPage: none)
  useCache,      \* the use_cache argument of the running call
  pending,       \* propositions of the current page not yet added
  extracted,     \* sentences.propositions of the current page
  chunksBefore,  \* chunks_before of the current page
  calls,         \* the LLM calls the last step issued, in order
  last,          \* what the last step was and how it ended
  everKeys,      \* every key self.chunks has held
  faults,        \* LLM calls and file writes that raised so far
  placed,        \* where each proposition added by the running call was put
  id_to_payload, \* FAISS.id_to_payload
  id_to_index,   \* FAISS.id_to_index
  index_to_id,   \* FAISS.index_to_id
  ntotal,        \* FAISS.index.ntotal: the vectors in the index
  indexFile,     \* <collection>.index on disk: its vector count, -1 if absent
  metadataFile,  \* <collection>_metadata.pkl on disk
  faissLast      \* the last FAISS operation and how it ended

chunkerVars == <<chunks, cacheFiles, allChunks, nextId, nextProp, pc, page, useCache,
                 pending, extracted, chunksBefore, calls, last, everKeys, faults, placed>>

faissVars == <<id_to_payload, id_to_index, index_to_id, ntotal, indexFile,
               metadataFile, faissLast>>

vars == <<chunkerVars, faissVars>>

\* ------------------------------------------------------------ the store
Keys(store) == {store[i].key : i \in 1..Len(store)}

HasKey(store, k) == \E i \in 1..Len(store) : store[i].key = k

PosOf(store, k) == CHOOSE i \in 1..Len(store) : store[i].key = k

\* ------------------------------------------------------------- the files
Absent == [kind |-> "absent", entries |-> <<>>]
Corrupt == [kind |-> "corrupt", entries |-> <<>>]

\* json.dump of a dict of chunk records: the text of the file
JsonDump(store) == [kind |-> "json", entries |-> store]

\* os.path.exists
Exists(file) == file.kind # "absent"

\* json.load of a file that holds JSON (on any other file it raises)
JsonLoad(file) == file.entries

Parses(file) == file.kind = "json"

\* a write that never reaches the file
WriteFileNotFlushed(old, data, io) == old

\* with open(path, 'w') as f: json.dump(data, f): the file afterwards
WriteFile(old, data, io) ==
  CASE io = "ok" -> JsonDump(data)
    [] io = "oserror" -> old
    [] OTHER -> Corrupt

\* hashlib.sha256(text.encode()).hexdigest(): injective on the texts
Sha256(text) == <<"sha256", text>>

Hashes == {Sha256(t) : t \in Texts}

GetDocumentHash(text) == Sha256(text)

\* ------------------------------------------------------------ LLM calls
\* One call of self.llm.answer(PROMPT, input): the prompt, its inputs, what
\* came back, and whether the call raised instead.  The text a free-text
\* prompt returns is named by the prompt and the inputs it was computed from.
Call(fn, args, out, raised) == [fn |-> fn, args |-> args, out |-> out, raised |-> raised]

Answer(fn, args, outcome) ==
  IF outcome = "raise" THEN Call(fn, args, <<>>, TRUE)
  ELSE Call(fn, args, <<fn>> \o args, FALSE)

\* The response to a structured prompt: possibly wrapped in a code fence,
\* then JSON that fits the schema, JSON that does not, or no JSON at all.
Raw(fenced, form, value) == [fenced |-> fenced, form |-> form, value |-> value]

RaiseResp == Raw(FALSE, "raise", None)

\* the chunk ids a matcher response can name: a key of the store, an unknown
\* id, or null
MatchResponses(store) ==
  {Raw(FALSE, "json", v) : v \in Keys(store) \cup {"zzz", None}}
    \cup {Raw(TRUE, "json", v) : v \in Keys(store)}
    \cup {Raw(FALSE, "garbage", None), Raw(TRUE, "badschema", None), RaiseResp}

\* parse_json_response that validates the text with its code fence on
ParseJsonResponseKeepsFence(result) ==
  IF result.form = "json" /\ ~result.fenced
    THEN [isNone |-> FALSE, value |-> result.value]
    ELSE [isNone |-> TRUE, value |-> None]

\* parse_json_response: strip the fence, then model_validate_json; every
\* exception becomes None
ParseJsonResponse(result) ==
  LET cleaned == [result EXCEPT !.fenced = FALSE]
  IN IF cleaned.form = "json"
       THEN [isNone |-> FALSE, value |-> cleaned.value]
       ELSE [isNone |-> TRUE, value |-> None]

\* uuid.uuid4() as the n-th identifier handed out
Uuid(n) == "k" \o ToString(n)

\* the result of a method: the store it leaves, the LLM calls it issued, and
\* whether it raised
Result(store, cs, raised) == [chunks |-> store, calls |-> cs, raised |-> raised]

\* get_chunks: the outline, one line per chunk: id, title, summary
GetChunks(store) ==
  [i \in 1..Len(store) |-> <<store[i].id, store[i].title, store[i].summary>>]

\* _get_new_chunk_summary, _get_new_chunk_title, _update_chunk_title,
\* _update_chunk_summary: one LLM call each
GetNewChunkSummary(proposition, outcome) ==
  Answer("new_chunk_summary", <<proposition>>, outcome)

GetNewChunkTitle(summary, outcome) ==
  Answer("new_chunk_title", <<summary>>, outcome)

UpdateChunkTitle(chunk, outcome) ==
  Answer("update_chunk_title", <<chunk.propositions, chunk.summary, chunk.title>>, outcome)

UpdateChunkSummary(chunk, outcome) ==
  Answer("update_chunk_summary", <<chunk.propositions, chunk.summary>>, outcome)

\* _create_chunk that asks for the title first, of a summary still empty, and
\* for the summary of the proposition after it
CreateChunkTitleFirst(store, proposition, id, o1, o2) ==
  LET c1 == GetNewChunkTitle(<<>>, o1)
      title == c1.out
      c2 == GetNewChunkSummary(proposition, o2)
      summary == c2.out
  IN IF c1.raised THEN Result(store, <<c1>>, TRUE)
     ELSE IF c2.raised THEN Result(store, <<c1, c2>>, TRUE)
     ELSE Result(Append(store, [key |-> id,
                                id |-> id,
                                title |-> title,
                                summary |-> summary,
                                propositions |-> <<proposition>>,
                                index |-> Len(store)]),
                 <<c1, c2>>, FALSE)

\* _create_chunk that inserts the chunk without its seed proposition
CreateChunkUnseeded(store, proposition, id, o1, o2) ==
  LET c1 == GetNewChunkSummary(proposition, o1)
      summary == c1.out
      c2 == GetNewChunkTitle(summary, o2)
      title == c2.out
  IN IF c1.raised THEN Result(store, <<c1>>, TRUE)
     ELSE IF c2.raised THEN Result(store, <<c1, c2>>, TRUE)
     ELSE Result(Append(store, [key |-> id,
                                id |-> id,
                                title |-> title,
                                summary |-> summary,
                                propositions |-> <<>>,
                                index |-> Len(store)]),
                 <<c1, c2>>, FALSE)

\* _create_chunk that inserts the chunk first and fills in the summary and
\* the title as the calls return
CreateChunkInsertsFirst(store, proposition, id, o1, o2) ==
  LET c1 == GetNewChunkSummary(proposition, o1)
      summary == c1.out
      c2 == GetNewChunkTitle(summary, o2)
      title == c2.out
      s0 == Append(store, [key |-> id,
                           id |-> id,
                           title |-> <<>>,
                           summary |-> <<>>,
                           propositions |-> <<proposition>>,
                           index |-> Len(store)])
      s1 == [s0 EXCEPT ![Len(s0)].summary = summary]
      s2 == [s1 EXCEPT ![Len(s0)].title = title]
  IN IF c1.raised THEN Result(s0, <<c1>>, TRUE)
     ELSE IF c2.raised THEN Result(s1, <<c1, c2>>, TRUE)
     ELSE Result(s2, <<c1, c2>>, FALSE)

\* _create_chunk that counts the indexes from one
CreateChunkIndexFromOne(store, proposition, id, o1, o2) ==
  LET c1 == GetNewChunkSummary(proposition, o1)
      summary == c1.out
      c2 == GetNewChunkTitle(summary, o2)
      title == c2.out
  IN IF c1.raised THEN Result(store, <<c1>>, TRUE)
     ELSE IF c2.raised THEN Result(store, <<c1, c2>>, TRUE)
     ELSE Result(Append(store, [key |-> id,
                                id |-> id,
                                title |-> title,
                                summary |-> summary,
                                propositions |-> <<proposition>>,
                                index |-> Len(store) + 1]),
                 <<c1, c2>>, FALSE)

\* _create_chunk that leaves the id field of the new record unset
CreateChunkOtherId(store, proposition, id, o1, o2) ==
  LET c1 == GetNewChunkSummary(proposition, o1)
      summary == c1.out
      c2 == GetNewChunkTitle(summary, o2)
      title == c2.out
  IN IF c1.raised THEN Result(store, <<c1>>, TRUE)
     ELSE IF c2.raised THEN Result(store, <<c1, c2>>, TRUE)
     ELSE Result(Append(store, [key |-> id,
                                id |-> None,
                                title |-> title,
                                summary |-> summary,
                                propositions |-> <<proposition>>,
                                index |-> Len(store)]),
                 <<c1, c2>>, FALSE)

\* _create_chunk(proposition), with the uuid and the outcomes of its two LLM
\* calls
CreateChunk(store, proposition, id, o1, o2) ==
  LET c1 == GetNewChunkSummary(proposition, o1)
      summary == c1.out
      c2 == GetNewChunkTitle(summary, o2)
      title == c2.out
  IN IF c1.raised THEN Result(store, <<c1>>, TRUE)
     ELSE IF c2.raised THEN Result(store, <<c1, c2>>, TRUE)
     ELSE Result(Append(store, [key |-> id,
                                id |-> id,
                                title |-> title,
                                summary |-> summary,
                                propositions |-> <<proposition>>,
                                index |-> Len(store)]),
                 <<c1, c2>>, FALSE)

\* _find_similar_chunk without the test "chunk_id not in self.chunks"
FindSimilarChunkUnchecked(store, proposition, resp) ==
  LET c == Call("find_similar_chunk", <<proposition, GetChunks(store)>>, resp,
                resp.form = "raise")
      chunk_found == ParseJsonResponse(resp)
  IN IF c.raised THEN [found |-> None, calls |-> <<c>>, raised |-> TRUE]
     ELSE IF chunk_found.isNone
       THEN [found |-> None, calls |-> <<c>>, raised |-> FALSE]
     ELSE [found |-> chunk_found.value, calls |-> <<c>>, raised |-> FALSE]

\* _find_similar_chunk(proposition), with the matcher's response: the chunk
\* id found (None for none), and the call
FindSimilarChunk(store, proposition, resp) ==
  LET c == Call("find_similar_chunk", <<proposition, GetChunks(store)>>, resp,
                resp.form = "raise")
      chunk_found == ParseJsonResponse(resp)
  IN IF c.raised THEN [found |-> None, calls |-> <<c>>, raised |-> TRUE]
     ELSE IF chunk_found.isNone \/ ~HasKey(store, chunk_found.value)
       THEN [found |-> None, calls |-> <<c>>, raised |-> FALSE]
     ELSE [found |-> chunk_found.value, calls |-> <<c>>, raised |-> FALSE]

\* add_proposition_to_chunk that assigns [proposition] to the list instead of
\* appending to it
AddPropositionToChunkAssigns(store, chunk_id, proposition, o1, o2) ==
  IF ~HasKey(store, chunk_id) THEN Result(store, <<>>, TRUE)
  ELSE
    LET i == PosOf(store, chunk_id)
        s1 == [store EXCEPT ![i].propositions = <<proposition>>]
        c1 == UpdateChunkTitle(s1[i], o1)
        s2 == [s1 EXCEPT ![i].title = c1.out]
        c2 == UpdateChunkSummary(s2[i], o2)
        s3 == [s2 EXCEPT ![i].summary = c2.out]
    IN IF c1.raised THEN Result(s1, <<c1>>, TRUE)
       ELSE IF c2.raised THEN Result(s2, <<c1, c2>>, TRUE)
       ELSE Result(s3, <<c1, c2>>, FALSE)

\* add_proposition_to_chunk that puts the proposition at the head of the list
AddPropositionToChunkPrepends(store, chunk_id, proposition, o1, o2) ==
  IF ~HasKey(store, chunk_id) THEN Result(store, <<>>, TRUE)
  ELSE
    LET i == PosOf(store, chunk_id)
        s1 == [store EXCEPT ![i].propositions = <<proposition>> \o @]
        c1 == UpdateChunkTitle(s1[i], o1)
        s2 == [s1 EXCEPT ![i].title = c1.out]
        c2 == UpdateChunkSummary(s2[i], o2)
        s3 == [s2 EXCEPT ![i].summary = c2.out]
    IN IF c1.raised THEN Result(s1, <<c1>>, TRUE)
       ELSE IF c2.raised THEN Result(s2, <<c1, c2>>, TRUE)
       ELSE Result(s3, <<c1, c2>>, FALSE)

\* add_proposition_to_chunk that regenerates the title and the summary from
\* the chunk as it was before the append
AddPropositionToChunkStale(store, chunk_id, proposition, o1, o2) ==
  IF ~HasKey(store, chunk_id) THEN Result(store, <<>>, TRUE)
  ELSE
    LET i == PosOf(store, chunk_id)
        s1 == [store EXCEPT ![i].propositions = Append(@, proposition)]
        c1 == UpdateChunkTitle(store[i], o1)
        s2 == [s1 EXCEPT ![i].title = c1.out]
        c2 == UpdateChunkSummary(store[i], o2)
        s3 == [s2 EXCEPT ![i].summary = c2.out]
    IN IF c1.raised THEN Result(s1, <<c1>>, TRUE)
       ELSE IF c2.raised THEN Result(s2, <<c1, c2>>, TRUE)
       ELSE Result(s3, <<c1, c2>>, FALSE)

\* add_proposition_to_chunk(chunk_id, proposition), with the outcomes of its
\* two LLM calls; self.chunks[chunk_id] raises KeyError on a key the store
\* does not hold
AddPropositionToChunk(store, chunk_id, proposition, o1, o2) ==
  IF ~HasKey(store, chunk_id) THEN Result(store, <<>>, TRUE)
  ELSE
    LET i == PosOf(store, chunk_id)
        s1 == [store EXCEPT ![i].propositions = Append(@, proposition)]
        c1 == UpdateChunkTitle(s1[i], o1)
        s2 == [s1 EXCEPT ![i].title = c1.out]
        c2 == UpdateChunkSummary(s2[i], o2)
        s3 == [s2 EXCEPT ![i].summary = c2.out]
    IN IF c1.raised THEN Result(s1, <<c1>>, TRUE)
       ELSE IF c2.raised THEN Result(s2, <<c1, c2>>, TRUE)
       ELSE Result(s3, <<c1, c2>>, FALSE)

\* add_proposition without the test "if not self.chunks": the matcher is asked
\* on the empty store too
AddPropositionAlwaysAsks(store, proposition, id, resp, o1, o2) ==
  LET m == FindSimilarChunk(store, proposition, resp)
  IN IF m.raised
       THEN [res |-> Result(store, m.calls, TRUE), path |-> "find", found |-> None]
     ELSE IF m.found = None
       THEN LET c == CreateChunk(store, proposition, id, o1, o2)
            IN [res |-> Result(c.chunks, m.calls \o c.calls, c.raised),
                path |-> "create", found |-> None]
     ELSE LET a == AddPropositionToChunk(store, m.found, proposition, o1, o2)
          IN [res |-> Result(a.chunks, m.calls \o a.calls, a.raised),
              path |-> "append", found |-> m.found]

\* add_proposition(proposition): the matcher's response resp is read only when
\* the store is not empty; o1 and o2 are the outcomes of the two LLM calls that
\* follow, in the order the code issues them.  The result also tells the path
\* taken and the chunk id the matcher settled on.
AddProposition(store, proposition, id, resp, o1, o2) ==
  IF Len(store) = 0
    THEN [res |-> CreateChunk(store, proposition, id, o1, o2),
          path |-> "create", found |-> None]
  ELSE
    LET m == FindSimilarChunk(store, proposition, resp)
    IN IF m.raised
         THEN [res |-> Result(store, m.calls, TRUE), path |-> "find", found |-> None]
       ELSE IF m.found = None
         THEN LET c == CreateChunk(store, proposition, id, o1, o2)
              IN [res |-> Result(c.chunks, m.calls \o c.calls, c.raised),
                  path |-> "create", found |-> None]
       ELSE LET a == AddPropositionToChunk(store, m.found, proposition, o1, o2)
            IN [res |-> Result(a.chunks, m.calls \o a.calls, a.raised),
                path |-> "append", found |-> m.found]

\* ------------------------------------------------------- the operations
NoResp == [fenced |-> FALSE, form |-> "none", value |-> None]

\* what a step was: the operation, its proposition, the number of chunks it
\* found in the store, the matcher's response it read, the path add_proposition
\* took, the chunk id found, whether it ran inside load_data_to_chunks, whether
\* it raised, and what it returned
Last(op, p, n, resp, path, found, run, raised, ret) ==
  [op |-> op, p |-> p, n |-> n, resp |-> resp, path |-> path, found |-> found,
   run |-> run, raised |-> raised, ret |-> ret]

Step(op, run, raised, ret) == Last(op, 0, 0, NoResp, "none", None, run, raised, ret)

\* the matcher's response, when add_proposition asked the matcher
RespRead(cs, resp) ==
  IF \E i \in 1..Len(cs) : cs[i].fn = "find_similar_chunk" THEN resp ELSE NoResp

\* the merge without the test "chunk_id not in self.chunks": a cached chunk
\* overwrites the chunk the store holds under its id
RECURSIVE MergeOverwrites(_, _)
MergeOverwrites(store, cached) ==
  IF cached = <<>> THEN store
  ELSE MergeOverwrites(IF HasKey(store, Head(cached).key)
                         THEN [store EXCEPT ![PosOf(store, Head(cached).key)] = Head(cached)]
                       ELSE Append(store, Head(cached)),
                       Tail(cached))

\* for chunk_id, chunk_data in cached_chunks.items():
\*     if chunk_id not in self.chunks: self.chunks[chunk_id] = chunk_data
RECURSIVE Merge(_, _)
Merge(store, cached) ==
  IF cached = <<>> THEN store
  ELSE Merge(IF HasKey(store, Head(cached).key) THEN store
             ELSE Append(store, Head(cached)),
             Tail(cached))

\* where a proposition stands after add_proposition returned
PlaceOf(a, id) ==
  IF a.path = "create" THEN <<id, 1>>
  ELSE <<a.found, Len(a.res.chunks[PosOf(a.res.chunks, a.found)].propositions)>>

\* ------------------------------------------------------------ the FAISS database
MaxVectors == 3         \* vectors the index may hold
MaxPoints == 2          \* points passed to one add_documents call
MaxLimit == 2           \* the limit of a dense_search

PointIds == {"a", "b"}
Payloads == {"p"}

\* a point as add_documents reads it: vector is None when the point carries no
\* dense vector
Points == [id : PointIds, vector : {"dense", None}, payload : Payloads]

PointLists == UNION {[1..n -> Points] : n \in 1..MaxPoints}

\* d[k] = v on a dict
Put(d, k, v) == [x \in (DOMAIN d) \cup {k} |-> IF x = k THEN v ELSE d[x]]

NoMetadata == [kind |-> "absent", id_to_payload |-> <<>>, id_to_index |-> <<>>,
               index_to_id |-> <<>>]

TruncatedMetadata == [NoMetadata EXCEPT !.kind = "corrupt"]

\* pickle.dump(metadata, f)
PickleDump(payloads, indexes, ids) ==
  [kind |-> "pickle", id_to_payload |-> payloads, id_to_index |-> indexes,
   index_to_id |-> ids]

\* what a FAISS operation was, whether it raised, whether it logged an error,
\* and the point ids it returned
FaissStep(op, raised, logged, ret) ==
  [op |-> op, raised |-> raised, logged |-> logged, ret |-> ret]

\* FAISS.__init__ on an empty index directory
FaissInit ==
  /\ id_to_payload = <<>>
  /\ id_to_index = <<>>
  /\ index_to_id = <<>>
  /\ ntotal = 0
  /\ indexFile = -1
  /\ metadataFile = NoMetadata
  /\ faissLast = FaissStep("init", FALSE, FALSE, <<>>)

\* the loop of add_documents over its points: it raises at the first point
\* without a dense vector, after the points before it were mapped
RECURSIVE AddPoints(_, _)
AddPoints(m, points) ==
  IF points = <<>> THEN m
  ELSE LET point == Head(points)
           point_id == point.id
           current_index == Cardinality(DOMAIN m.id_to_index)
       IN IF point.vector = None THEN [m EXCEPT !.raised = TRUE]
          ELSE AddPoints([id_to_payload |-> Put(m.id_to_payload, point_id, point.payload),
                          id_to_index |-> Put(m.id_to_index, point_id, current_index),
                          index_to_id |-> Put(m.index_to_id, current_index, point_id),
                          raised |-> FALSE],
                         Tail(points))

\* where add_documents and _save_index may raise after the loop
Failures == {"none", "index_add", "write_index", "open_metadata", "pickle_dump"}

\* _save_index(): the two files afterwards, and whether it raised
SaveIndex(n, payloads, indexes, ids, fail) ==
  CASE fail = "write_index" ->
         [indexFile |-> indexFile, metadataFile |-> metadataFile, raised |-> TRUE]
    [] fail = "open_metadata" ->
         [indexFile |-> n, metadataFile |-> metadataFile, raised |-> TRUE]
    [] fail = "pickle_dump" ->
         [indexFile |-> n, metadataFile |-> TruncatedMetadata, raised |-> TRUE]
    [] OTHER ->
         [indexFile |-> n, metadataFile |-> PickleDump(payloads, indexes, ids),
          raised |-> FALSE]

\* add_documents(points)
AddDocuments(points, fail) ==
  /\ ntotal + Len(points) <= MaxVectors
  /\ LET m == AddPoints([id_to_payload |-> id_to_payload, id_to_index |-> id_to_index,
                         index_to_id |-> index_to_id, raised |-> FALSE], points)
         n == ntotal + Len(points)
         s == SaveIndex(n, m.id_to_payload, m.id_to_index, m.index_to_id, fail)
     IN /\ id_to_payload' = m.id_to_payload
        /\ id_to_index' = m.id_to_index
        /\ index_to_id' = m.index_to_id
        /\ IF m.raised
             THEN /\ fail = "none"
                  /\ faissLast' = FaissStep("add_documents", TRUE, TRUE, <<>>)
                  /\ UNCHANGED <<ntotal, indexFile, metadataFile>>
           ELSE IF fail = "index_add"
             THEN /\ faissLast' = FaissStep("add_documents", TRUE, TRUE, <<>>)
                  /\ UNCHANGED <<ntotal, indexFile, metadataFile>>
           ELSE /\ ntotal' = n
                /\ indexFile' = s.indexFile
                /\ metadataFile' = s.metadataFile
                /\ faissLast' = FaissStep("add_documents", s.raised, s.raised, <<>>)
  /\ UNCHANGED chunkerVars

\* the positions index.search may return for k neighbours
Hits(k) ==
  {h \in [1..k -> 0..(ntotal - 1)] : \A i, j \in 1..k : h[i] = h[j] => i = j}

\* dense_search(query, limit), with the positions the index returned and
\* whether encoding the query raised
DenseSearch(limit, hits, fail) ==
  /\ hits \in Hits(IF limit < ntotal THEN limit ELSE ntotal)
  /\ IF ntotal = 0
       THEN /\ ~fail
            /\ faissLast' = FaissStep("dense_search", FALSE, FALSE, <<>>)
     ELSE IF \/ fail
             \/ \E i \in DOMAIN hits :
                  \/ hits[i] \notin DOMAIN index_to_id
                  \/ index_to_id[hits[i]] \notin DOMAIN id_to_payload
       THEN faissLast' = FaissStep("dense_search", FALSE, TRUE, <<>>)
     ELSE faissLast' = FaissStep("dense_search", FALSE, FALSE,
                                 [i \in DOMAIN hits |-> index_to_id[hits[i]]])
  /\ UNCHANGED <<id_to_payload, id_to_index, index_to_id, ntotal, indexFile,
                 metadataFile>>
  /\ UNCHANGED chunkerVars

\* delete_collection()
DeleteCollection ==
  /\ indexFile' = -1
  /\ metadataFile' = NoMetadata
  /\ ntotal' = 0
  /\ id_to_payload' = <<>>
  /\ id_to_index' = <<>>
  /\ index_to_id' = <<>>
  /\ faissLast' = FaissStep("delete_collection", FALSE, FALSE, <<>>)
  /\ UNCHANGED chunkerVars

\* close(): _save_index() whose error is logged and dropped
Close(fail) ==
  /\ fail \in Failures \ {"index_add"}
  /\ LET s == SaveIndex(ntotal, id_to_payload, id_to_index, index_to_id, fail)
     IN /\ indexFile' = s.indexFile
        /\ metadataFile' = s.metadataFile
        /\ faissLast' = FaissStep("close", FALSE, s.raised, <<>>)
  /\ UNCHANGED <<id_to_payload, id_to_index, index_to_id, ntotal>>
  /\ UNCHANGED chunkerVars

\* a new process constructs FAISS over the same index directory: __init__ and
\* _load_index()
LoadIndex ==
  /\ IF indexFile # -1 /\ metadataFile.kind = "pickle"
       THEN /\ ntotal' = indexFile
            /\ id_to_payload' = metadataFile.id_to_payload
            /\ id_to_index' = metadataFile.id_to_index
            /\ index_to_id' = metadataFile.index_to_id
            /\ faissLast' = FaissStep("init", FALSE, FALSE, <<>>)
       ELSE /\ ntotal' = 0
            /\ id_to_payload' = <<>>
            /\ id_to_index' = <<>>
            /\ index_to_id' = <<>>
            /\ faissLast' = FaissStep("init", FALSE,
                                      indexFile # -1 /\ metadataFile.kind = "corrupt",
                                      <<>>)
  /\ UNCHANGED <<indexFile, metadataFile>>
  /\ UNCHANGED chunkerVars

FaissNext ==
  \/ \E points \in PointLists, fail \in Failures : AddDocuments(points, fail)
  \/ \E limit \in 1..MaxLimit, fail \in BOOLEAN :
       \E hits \in Hits(IF limit < ntotal THEN limit ELSE ntotal) :
         DenseSearch(limit, hits, fail)
  \/ DeleteCollection
  \/ \E fail \in Failures : Close(fail)
  \/ LoadIndex

Init ==
  /\ chunks = <<>>
  /\ cacheFiles = [h \in Hashes |-> Absent]
  /\ allChunks = Absent
  /\ nextId = 1
  /\ nextProp = 1
  /\ pc = "idle"
  /\ page = NoPage
  /\ useCache = TRUE
  /\ pending = <<>>
  /\ extracted = <<>>
  /\ chunksBefore = 0
  /\ calls = <<>>
  /\ last = Step("init", FALSE, FALSE, None)
  /\ everKeys = {}
  /\ faults = 0
  /\ placed = {}
  /\ FaissInit

\* the environment lets a call raise at most MaxFaults times
Fault(raised) ==
  /\ raised => faults < MaxFaults
  /\ faults' = IF raised THEN faults + 1 ELSE faults

\* the loop body ends (or continues): back to the loop head
NextPage ==
  /\ page' = NoPage
  /\ pc' = "page"
  /\ pending' = <<>>
  /\ extracted' = <<>>
  /\ chunksBefore' = 0
  /\ UNCHANGED <<useCache, placed>>

\* an exception leaves load_data_to_chunks
Abort ==
  /\ page' = NoPage
  /\ pc' = "idle"
  /\ pending' = <<>>
  /\ extracted' = <<>>
  /\ chunksBefore' = 0
  /\ useCache' = TRUE
  /\ placed' = {}

\* a caller calls load_data_to_chunks(pages, use_cache); the elements of pages
\* are read one by one, as the loop reaches them
StartRun(uc) ==
  /\ UNCHANGED faissVars
  /\ pc = "idle"
  /\ pc' = "page"
  /\ useCache' = uc
  /\ page' = NoPage
  /\ pending' = <<>>
  /\ extracted' = <<>>
  /\ chunksBefore' = 0
  /\ calls' = <<>>
  /\ last' = Step("load_data_to_chunks", TRUE, FALSE, None)
  /\ placed' = {}
  /\ UNCHANGED <<chunks, cacheFiles, allChunks, nextId, nextProp, everKeys, faults>>

\* pages is exhausted: the loop ends and load_data_to_chunks returns
EndRun ==
  /\ UNCHANGED faissVars
  /\ pc = "page"
  /\ pc' = "idle"
  /\ useCache' = TRUE
  /\ calls' = <<>>
  /\ last' = Step("return", TRUE, FALSE, None)
  /\ placed' = {}
  /\ UNCHANGED <<chunks, cacheFiles, allChunks, nextId, nextProp, page, pending, extracted,
                 chunksBefore, everKeys, faults>>

CacheFileOf(pg) == cacheFiles[GetDocumentHash(pg.text)]

\* the loop takes the next element pg of pages, which has a cache record, and
\* use_cache is set: read the record, merge it, save_chunks, continue; any
\* exception falls through to processing the page
PageCached(pg, io) ==
  /\ UNCHANGED faissVars
  /\ pc = "page"
  /\ useCache /\ Exists(CacheFileOf(pg))
  /\ LET file == CacheFileOf(pg)
         merged == Merge(chunks, JsonLoad(file))
     IN IF ~Parses(file)
          THEN /\ io = "ok"
               /\ UNCHANGED faults
               /\ pc' = "extract"
               /\ page' = pg
               /\ last' = Step("page_cached", TRUE, TRUE, "reprocess")
               /\ UNCHANGED <<chunks, allChunks, pending, extracted, everKeys, chunksBefore>>
          ELSE /\ chunks' = merged
               /\ everKeys' = everKeys \cup Keys(merged)
               /\ allChunks' = WriteFile(allChunks, merged, io)
               /\ Fault(io # "ok")
               /\ IF io = "ok"
                    THEN /\ pc' = "page"
                         /\ page' = NoPage
                         /\ last' = Step("page_cached", TRUE, FALSE, "continue")
                    ELSE /\ pc' = "extract"
                         /\ page' = pg
                         /\ last' = Step("page_cached", TRUE, TRUE, "reprocess")
               /\ UNCHANGED <<pending, extracted, chunksBefore>>
  /\ calls' = <<>>
  /\ UNCHANGED <<cacheFiles, nextId, nextProp, useCache, placed>>

\* the responses the extraction prompt can get: n propositions, named by
\* their arrival numbers, or a text that does not parse
Fresh(n) == [i \in 1..n |-> nextProp + i - 1]

ExtractRaise == Raw(FALSE, "raise", <<>>)

ExtractResponses ==
  {Raw(FALSE, "json", Fresh(n)) : n \in 0..(MaxProps + 1 - nextProp)}
    \cup {Raw(TRUE, "json", Fresh(n)) : n \in 1..(MaxProps + 1 - nextProp)}
    \cup {Raw(TRUE, "garbage", <<>>), Raw(FALSE, "badschema", <<>>), ExtractRaise}

\* the page pg is processed (the next element of pages when it is not served
\* from the cache, or the page whose cached branch raised): chunks_before,
\* then the LLM call and the parse of _generate_propositions
Extract(pg, resp) ==
  /\ UNCHANGED faissVars
  /\ \/ pc = "extract" /\ pg = page
     \/ pc = "page" /\ ~(useCache /\ Exists(CacheFileOf(pg)))
  /\ calls' = <<Call("generate_propositions", <<pg.text>>, resp,
                     resp.form = "raise")>>
  /\ Fault(resp.form = "raise")
  /\ LET sentences == ParseJsonResponse(resp)
     IN IF resp.form = "raise"
          THEN /\ Abort
               /\ last' = Step("generate_propositions", TRUE, TRUE, None)
               /\ UNCHANGED nextProp
        ELSE IF sentences.isNone
          THEN /\ pc' = "finish"
               /\ pending' = <<>>
               /\ extracted' = <<>>
               /\ chunksBefore' = Len(chunks)
               /\ page' = pg
               /\ last' = Step("generate_propositions", TRUE, FALSE, "unparsed")
               /\ UNCHANGED <<nextProp, useCache, placed>>
        ELSE /\ pending' = sentences.value
             /\ extracted' = sentences.value
             /\ nextProp' = nextProp + Len(sentences.value)
             /\ pc' = IF sentences.value = <<>> THEN "finish" ELSE "props"
             /\ chunksBefore' = Len(chunks)
             /\ page' = pg
             /\ last' = Step("generate_propositions", TRUE, FALSE, "parsed")
             /\ UNCHANGED <<useCache, placed>>
  /\ UNCHANGED <<chunks, cacheFiles, allChunks, nextId, everKeys>>

\* the loop over sentences.propositions taken from the end of the list
AddNextFromEnd(resp, o1, o2) ==
  /\ UNCHANGED faissVars
  /\ pc = "props" /\ pending # <<>>
  /\ LET p == pending[Len(pending)]
         id == Uuid(nextId)
         a == AddProposition(chunks, p, id, resp, o1, o2)
     IN /\ Fault(a.res.raised)
        /\ chunks' = a.res.chunks
        /\ everKeys' = everKeys \cup Keys(a.res.chunks)
        /\ calls' = a.res.calls
        /\ nextId' = IF Len(a.res.chunks) > Len(chunks) THEN nextId + 1 ELSE nextId
        /\ last' = Last("add_proposition", p, Len(chunks), RespRead(a.res.calls, resp),
                        a.path, a.found, TRUE, a.res.raised, None)
        /\ IF a.res.raised
             THEN Abort
             ELSE /\ pending' = SubSeq(pending, 1, Len(pending) - 1)
                  /\ pc' = IF Len(pending) = 1 THEN "finish" ELSE "props"
                  /\ placed' = placed \cup {<<p>> \o PlaceOf(a, id)}
                  /\ UNCHANGED <<page, useCache, chunksBefore, extracted>>
  /\ UNCHANGED <<cacheFiles, allChunks, nextProp>>

\* for proposition in sentences.propositions: self.add_proposition(proposition)
AddNext(resp, o1, o2) ==
  /\ UNCHANGED faissVars
  /\ pc = "props" /\ pending # <<>>
  /\ LET p == Head(pending)
         id == Uuid(nextId)
         a == AddProposition(chunks, p, id, resp, o1, o2)
     IN /\ Fault(a.res.raised)
        /\ chunks' = a.res.chunks
        /\ everKeys' = everKeys \cup Keys(a.res.chunks)
        /\ calls' = a.res.calls
        /\ nextId' = IF Len(a.res.chunks) > Len(chunks) THEN nextId + 1 ELSE nextId
        /\ last' = Last("add_proposition", p, Len(chunks), RespRead(a.res.calls, resp),
                        a.path, a.found, TRUE, a.res.raised, None)
        /\ IF a.res.raised
             THEN Abort
             ELSE /\ pending' = Tail(pending)
                  /\ pc' = IF Tail(pending) = <<>> THEN "finish" ELSE "props"
                  /\ placed' = placed \cup {<<p>> \o PlaceOf(a, id)}
                  /\ UNCHANGED <<page, useCache, chunksBefore, extracted>>
  /\ UNCHANGED <<cacheFiles, allChunks, nextProp>>

\* the end of the loop body without the try/except around the two writes: an
\* exception of either write leaves load_data_to_chunks
FinishPageUnguarded(io1, io2) ==
  /\ UNCHANGED faissVars
  /\ pc = "finish"
  /\ LET h == GetDocumentHash(page.text)
         new_chunks == SubSeq(chunks, chunksBefore + 1, Len(chunks))
     IN /\ cacheFiles' = [cacheFiles EXCEPT ![h] = WriteFile(@, new_chunks, io1)]
        /\ IF io1 = "ok"
             THEN allChunks' = WriteFile(allChunks, chunks, io2)
             ELSE io2 = "ok" /\ UNCHANGED allChunks
  /\ Fault(io1 # "ok" \/ io2 # "ok")
  /\ IF io1 # "ok" \/ io2 # "ok" THEN Abort ELSE NextPage
  /\ last' = Step("finish_page", TRUE, io1 # "ok" \/ io2 # "ok", None)
  /\ calls' = <<>>
  /\ UNCHANGED <<chunks, nextId, nextProp, everKeys>>

\* the end of the loop body without save_chunks: the snapshot is left to a
\* later call
FinishPageRecordOnly(io1, io2) ==
  /\ UNCHANGED faissVars
  /\ pc = "finish"
  /\ LET h == GetDocumentHash(page.text)
         new_chunks == SubSeq(chunks, chunksBefore + 1, Len(chunks))
     IN cacheFiles' = [cacheFiles EXCEPT ![h] = WriteFile(@, new_chunks, io1)]
  /\ io2 = "ok"
  /\ Fault(io1 # "ok")
  /\ NextPage
  /\ last' = Step("finish_page", TRUE, io1 # "ok", None)
  /\ calls' = <<>>
  /\ UNCHANGED <<chunks, allChunks, nextId, nextProp, everKeys>>

\* the end of the loop body: the page's record, then save_chunks; an exception
\* of either write is logged
FinishPage(io1, io2) ==
  /\ UNCHANGED faissVars
  /\ pc = "finish"
  /\ LET h == GetDocumentHash(page.text)
         new_chunks == SubSeq(chunks, chunksBefore + 1, Len(chunks))
     IN /\ cacheFiles' = [cacheFiles EXCEPT ![h] = WriteFile(@, new_chunks, io1)]
        /\ IF io1 = "ok"
             THEN allChunks' = WriteFile(allChunks, chunks, io2)
             ELSE io2 = "ok" /\ UNCHANGED allChunks
  /\ Fault(io1 # "ok" \/ io2 # "ok")
  /\ NextPage
  /\ last' = Step("finish_page", TRUE, io1 # "ok" \/ io2 # "ok", None)
  /\ calls' = <<>>
  /\ UNCHANGED <<chunks, nextId, nextProp, everKeys>>

\* a caller calls add_proposition(proposition)
AddPropositionCall(resp, o1, o2) ==
  /\ UNCHANGED faissVars
  /\ pc = "idle"
  /\ nextProp <= MaxProps
  /\ LET p == nextProp
         id == Uuid(nextId)
         a == AddProposition(chunks, p, id, resp, o1, o2)
     IN /\ Fault(a.res.raised)
        /\ chunks' = a.res.chunks
        /\ everKeys' = everKeys \cup Keys(a.res.chunks)
        /\ calls' = a.res.calls
        /\ nextId' = IF Len(a.res.chunks) > Len(chunks) THEN nextId + 1 ELSE nextId
        /\ last' = Last("add_proposition", p, Len(chunks), RespRead(a.res.calls, resp),
                        a.path, a.found, FALSE, a.res.raised, None)
  /\ nextProp' = nextProp + 1
  /\ placed' = {}
  /\ UNCHANGED <<cacheFiles, allChunks, pc, page, useCache, pending, extracted, chunksBefore>>

\* a caller calls save_chunks()
SaveChunks(io) ==
  /\ UNCHANGED faissVars
  /\ pc = "idle"
  /\ allChunks' = WriteFile(allChunks, chunks, io)
  /\ Fault(io # "ok")
  /\ calls' = <<>>
  /\ last' = Step("save_chunks", FALSE, io # "ok", None)
  /\ placed' = {}
  /\ UNCHANGED <<chunks, cacheFiles, nextId, nextProp, pc, page, useCache,
                 pending, extracted, chunksBefore, everKeys>>

\* load_chunks that merges the snapshot into the store as the cached branch
\* merges a record
LoadChunksMerges ==
  /\ UNCHANGED faissVars
  /\ pc = "idle"
  /\ IF Exists(allChunks) /\ Parses(allChunks)
       THEN /\ chunks' = Merge(chunks, JsonLoad(allChunks))
            /\ everKeys' = everKeys \cup Keys(JsonLoad(allChunks))
            /\ last' = Step("load_chunks", FALSE, FALSE, "True")
       ELSE /\ last' = Step("load_chunks", FALSE, FALSE, "False")
            /\ UNCHANGED <<chunks, everKeys>>
  /\ calls' = <<>>
  /\ placed' = {}
  /\ UNCHANGED <<cacheFiles, allChunks, nextId, nextProp, pc, page, useCache,
                 pending, extracted, chunksBefore, faults>>

\* a caller calls load_chunks()
LoadChunks ==
  /\ UNCHANGED faissVars
  /\ pc = "idle"
  /\ IF Exists(allChunks) /\ Parses(allChunks)
       THEN /\ chunks' = JsonLoad(allChunks)
            /\ everKeys' = everKeys \cup Keys(JsonLoad(allChunks))
            /\ last' = Step("load_chunks", FALSE, FALSE, "True")
       ELSE /\ last' = Step("load_chunks", FALSE, FALSE, "False")
            /\ UNCHANGED <<chunks, everKeys>>
  /\ calls' = <<>>
  /\ placed' = {}
  /\ UNCHANGED <<cacheFiles, allChunks, nextId, nextProp, pc, page, useCache,
                 pending, extracted, chunksBefore, faults>>

\* clear_cache that removes the per-document records only
ClearCacheKeepsSnapshot ==
  /\ UNCHANGED faissVars
  /\ pc = "idle"
  /\ cacheFiles' = [h \in Hashes |-> Absent]
  /\ calls' = <<>>
  /\ last' = Step("clear_cache", FALSE, FALSE, None)
  /\ placed' = {}
  /\ UNCHANGED <<chunks, allChunks, nextId, nextProp, pc, page, useCache, pending, extracted,
                 chunksBefore, everKeys, faults>>

\* a caller calls clear_cache(): shutil.rmtree(cache_dir), os.makedirs(cache_dir)
ClearCache ==
  /\ UNCHANGED faissVars
  /\ pc = "idle"
  /\ cacheFiles' = [h \in Hashes |-> Absent]
  /\ allChunks' = Absent
  /\ calls' = <<>>
  /\ last' = Step("clear_cache", FALSE, FALSE, None)
  /\ placed' = {}
  /\ UNCHANGED <<chunks, nextId, nextProp, pc, page, useCache, pending, extracted,
                 chunksBefore, everKeys, faults>>

\* the process ends and a later one constructs AgenticChunker(llm, cache_dir)
\* on the same cache directory: __init__ sets self.chunks = {}
Restart ==
  /\ UNCHANGED faissVars
  /\ chunks' = <<>>
  /\ pc' = "idle"
  /\ page' = NoPage
  /\ useCache' = TRUE
  /\ pending' = <<>>
  /\ extracted' = <<>>
  /\ chunksBefore' = 0
  /\ calls' = <<>>
  /\ last' = Step("init", FALSE, FALSE, None)
  /\ placed' = {}
  /\ UNCHANGED <<cacheFiles, allChunks, nextId, nextProp, everKeys, faults>>

\* the process stops inside save_chunks, between open(filepath, 'w'), which
\* truncates all_chunks.json, and the end of json.dump: at the end of the loop
\* body (after the page's record was written), in the cached branch (after
\* the merge), or in a call by a client
CrashInSave ==
  /\ UNCHANGED faissVars
  /\ \/ pc = "finish"
     \/ pc = "idle"
     \/ /\ pc = "page" /\ useCache
        /\ \E pg \in PageSet : Exists(CacheFileOf(pg)) /\ Parses(CacheFileOf(pg))
  /\ cacheFiles' =
       IF pc = "finish"
         THEN [cacheFiles EXCEPT ![GetDocumentHash(page.text)] =
                 JsonDump(SubSeq(chunks, chunksBefore + 1, Len(chunks)))]
         ELSE cacheFiles
  /\ allChunks' = Corrupt
  /\ chunks' = <<>>
  /\ pc' = "idle"
  /\ page' = NoPage
  /\ useCache' = TRUE
  /\ pending' = <<>>
  /\ extracted' = <<>>
  /\ chunksBefore' = 0
  /\ calls' = <<>>
  /\ last' = Step("crash", FALSE, TRUE, None)
  /\ placed' = {}
  /\ UNCHANGED <<nextId, nextProp, everKeys, faults>>

Next ==
  \/ \E uc \in BOOLEAN : StartRun(uc)
  \/ EndRun
  \/ \E pg \in PageSet, io \in IO : PageCached(pg, io)
  \/ \E pg \in PageSet, resp \in ExtractResponses : Extract(pg, resp)
  \/ \E resp \in MatchResponses(chunks), o1, o2 \in Outcomes : AddNext(resp, o1, o2)
  \/ \E io1, io2 \in IO : FinishPage(io1, io2)
  \/ \E resp \in MatchResponses(chunks), o1, o2 \in Outcomes :
       AddPropositionCall(resp, o1, o2)
  \/ \E io \in IO : SaveChunks(io)
  \/ LoadChunks
  \/ ClearCache
  \/ Restart
  \/ CrashInSave

Spec == Init /\ [][Next]_vars

\* ------------------------------------------------- the persistence key
\* The key of a page is computed by a pure function; it is exercised on its
\* own, on pages that differ in source, page number and text.  In this
\* specification calls records the key computations made so far.
MaxHashed == 2          \* key computations recorded

HashPages == [source : {"a.pdf", "b.pdf"}, page : 0..2, text : Texts]

\* doc_hash = self._get_document_hash(page.page_content)
HashPage(pg) ==
  /\ UNCHANGED faissVars
  /\ Len(calls) < MaxHashed
  /\ calls' = Append(calls, Call("get_document_hash", <<pg>>,
                                 GetDocumentHash(pg.text), FALSE))
  /\ UNCHANGED <<chunks, cacheFiles, allChunks, nextId, nextProp, pc, page,
                 useCache, pending, extracted, chunksBefore, last, everKeys, faults, placed>>

HashNext == \E pg \in HashPages : HashPage(pg)

HashSpec == Init /\ [][HashNext]_vars

\* the FAISS database on its own: the chunker stays as constructed
FaissSpec == Init /\ [][FaissNext]_vars

\* ------------------------------------------------------------ properties
\* the prompts of the LLM calls the last step issued, in order
Prompts == [i \in 1..Len(calls) |-> calls[i].fn]

\* the last step was add_proposition and it returned
Added == last.op = "add_proposition" /\ ~last.raised

\* every entry of store a is in store b under its key, with its propositions
\* a prefix of the propositions it has in b
Grows(a, b) ==
  \A i \in 1..Len(a) :
    /\ HasKey(b, a[i].key)
    /\ LET ps == a[i].propositions
           qs == b[PosOf(b, a[i].key)].propositions
       IN Len(ps) <= Len(qs) /\ SubSeq(qs, 1, Len(ps)) = ps

\* C1: add_proposition(X) on an empty store issues no find-similar LLM call;
\* when it returns, the store holds exactly one chunk, with propositions [X]
\* and index 0, and the only LLM calls were the seed summary and the seed title.
C1_FirstProposition ==
  (last.op = "add_proposition" /\ last.n = 0) =>
    /\ \A i \in 1..Len(calls) : calls[i].fn # "find_similar_chunk"
    /\ ~last.raised =>
         /\ Len(chunks) = 1
         /\ chunks[1].propositions = <<last.p>>
         /\ chunks[1].index = 0
         /\ Prompts = <<"new_chunk_summary", "new_chunk_title">>

C1_Witness ==
  /\ Added /\ last.n = 0
  /\ Len(chunks) = 1 /\ chunks[1].propositions = <<last.p>>

\* C2: the chunk id _find_similar_chunk returns is None or a key of the store;
\* a response that does not parse, that names null, or that names an id the
\* store does not hold gives None, and add_proposition then creates a new
\* chunk holding only the proposition, raises nothing unless one of the two
\* seed calls raises, and leaves every chunk the store held as it was.
C2_Step ==
  (last'.op = "add_proposition" /\ Len(chunks) > 0 /\ last'.path # "find") =>
    /\ last'.found = None \/ last'.found \in Keys(chunks)
    /\ (\/ last'.resp.form \in {"garbage", "badschema"}
        \/ last'.resp.value = None
        \/ last'.resp.value \notin Keys(chunks)) =>
         /\ last'.found = None
         /\ last'.path = "create"
         /\ last'.raised = (\E i \in 1..Len(calls') :
                              /\ calls'[i].fn \in {"new_chunk_summary", "new_chunk_title"}
                              /\ calls'[i].raised)
         /\ last'.raised => chunks' = chunks
         /\ ~last'.raised =>
              /\ Len(chunks') = Len(chunks) + 1
              /\ SubSeq(chunks', 1, Len(chunks)) = chunks
              /\ chunks'[Len(chunks')].propositions = <<last'.p>>

C2_MatcherResult == [][C2_Step]_vars

C2_Witness ==
  /\ Added /\ last.n = 1
  /\ last.resp.value = "zzz"
  /\ last.path = "create"
  /\ Len(chunks) = 2

\* C3: while load_data_to_chunks runs, every proposition add_proposition has
\* taken and returned from stands in exactly one chunk, at the place it was
\* put: it is never moved and never duplicated.
C3_ExactlyOneChunk ==
  \A t \in placed :
    /\ HasKey(chunks, t[2])
    /\ LET ps == chunks[PosOf(chunks, t[2])].propositions
       IN Len(ps) >= t[3] /\ ps[t[3]] = t[1]
    /\ Cardinality({ij \in {<<i, j>> : i \in 1..Len(chunks), j \in 1..MaxProps + 1} :
                      /\ ij[2] <= Len(chunks[ij[1]].propositions)
                      /\ chunks[ij[1]].propositions[ij[2]] = t[1]}) = 1

C3_Witness ==
  /\ Cardinality(placed) = 2
  /\ \E t \in placed : t[3] = 2

\* C4: when add_proposition_to_chunk returns, the proposition is the last of
\* the chunk's propositions, the title call and the summary call both received
\* the list that contains it, and the chunk stores what the two calls returned.
C4_AppendRefreshes ==
  (Added /\ last.path = "append") =>
    /\ HasKey(chunks, last.found)
    /\ LET c == chunks[PosOf(chunks, last.found)]
       IN /\ c.propositions # <<>>
          /\ c.propositions[Len(c.propositions)] = last.p
          /\ \E i \in 1..Len(calls) :
               /\ calls[i].fn = "update_chunk_title"
               /\ calls[i].args[1] = c.propositions
               /\ c.title = calls[i].out
          /\ \E i \in 1..Len(calls) :
               /\ calls[i].fn = "update_chunk_summary"
               /\ calls[i].args[1] = c.propositions
               /\ c.summary = calls[i].out

C4_Witness ==
  /\ Added /\ last.path = "append"
  /\ Len(chunks[PosOf(chunks, last.found)].propositions) = 2

\* C5: on the update path the summary call comes before the title call, and
\* the title call receives the summary that the summary call just returned.
C5_SummaryBeforeTitle ==
  (Added /\ last.path = "append") =>
    \E i, j \in 1..Len(calls) :
      /\ i < j
      /\ calls[i].fn = "update_chunk_summary"
      /\ calls[j].fn = "update_chunk_title"
      /\ calls[j].args[2] = calls[i].out

\* C6: _create_chunk asks for the seed summary of the proposition, then for
\* the title of that summary, and the chunk it stores carries both.
C6_SeedSummaryThenTitle ==
  (Added /\ last.path = "create") =>
    LET k == Len(calls)
        c == chunks[Len(chunks)]
    IN /\ k >= 2
       /\ calls[k - 1].fn = "new_chunk_summary"
       /\ calls[k - 1].args = <<last.p>>
       /\ calls[k].fn = "new_chunk_title"
       /\ calls[k].args = <<calls[k - 1].out>>
       /\ c.propositions = <<last.p>>
       /\ c.summary = calls[k - 1].out
       /\ c.title = calls[k].out

C6_Witness ==
  /\ Added /\ last.path = "create"
  /\ Len(calls) = 3
  /\ chunks[Len(chunks)].title = <<"new_chunk_title", <<"new_chunk_summary", last.p>>>>

\* C7: a chunk creation adds one entry to the store, under an id that is not
\* a key of the store and never was one, with index the number of chunks the
\* store held before.
C7_Step ==
  (last'.op = "add_proposition" /\ last'.path = "create" /\ ~last'.raised) =>
    /\ Len(chunks') = Len(chunks) + 1
    /\ LET new == chunks'[Len(chunks')]
       IN /\ new.key \notin Keys(chunks)
          /\ new.key \notin everKeys
          /\ new.id = new.key
          /\ new.index = Len(chunks)

C7_FreshIdAndIndex == [][C7_Step]_vars

C7_Witness ==
  /\ Added /\ last.path = "create"
  /\ Len(chunks) = 2
  /\ Cardinality(everKeys) >= 2
  /\ chunks[2].index = 1

\* C8: in every reachable state the indexes of the chunks are pairwise
\* distinct and strictly increasing in entry order.
C8_IndexesIncrease ==
  \A i, j \in 1..Len(chunks) : i < j => chunks[i].index < chunks[j].index

\* C9 as stated: add_proposition, load_data_to_chunks, load_chunks and
\* save_chunks only grow the store: no key disappears and no proposition is
\* removed from a chunk.
C9_AllOps ==
  [][last'.op \in {"add_proposition", "load_data_to_chunks", "page_cached",
                   "generate_propositions", "finish_page", "return",
                   "save_chunks", "load_chunks"}
       => Grows(chunks, chunks')]_vars

\* C9: add_proposition, load_data_to_chunks and save_chunks only grow the
\* store: no key disappears and no proposition is removed from a chunk
\* (load_chunks replaces the store by the snapshot).
C9_StoreGrows ==
  [][last'.op \in {"add_proposition", "load_data_to_chunks", "page_cached",
                   "generate_propositions", "finish_page", "return",
                   "save_chunks"}
       => Grows(chunks, chunks')]_vars

C9_Witness ==
  /\ last.op = "page_cached" /\ last.ret = "continue"
  /\ Len(chunks) = 1
  /\ Len(chunks[1].propositions) = 2
  /\ \E h \in Hashes :
       /\ Len(cacheFiles[h].entries) = 1
       /\ cacheFiles[h].entries[1].key = chunks[1].key
       /\ Len(cacheFiles[h].entries[1].propositions) = 1

C11_Step ==
  last'.op = "page_cached" =>
    \E pg \in PageSet :
      LET file == CacheFileOf(pg)
          r == file.entries
      IN /\ Exists(file)
         /\ last'.ret = "reprocess" => page' = pg
         /\ ~Parses(file) => (chunks' = chunks /\ last'.ret = "reprocess")
         /\ Parses(file) =>
              /\ Len(chunks') >= Len(chunks)
              /\ SubSeq(chunks', 1, Len(chunks)) = chunks
              /\ Keys(chunks') = Keys(chunks) \cup Keys(r)
              /\ \A i \in Len(chunks) + 1..Len(chunks') :
                   /\ chunks'[i].key \notin Keys(chunks)
                   /\ \E j \in 1..Len(r) : r[j] = chunks'[i]
              /\ Keys(r) \subseteq Keys(chunks) => chunks' = chunks

C11_MergeIdempotent == [][C11_Step]_vars

C11_Witness ==
  /\ last.op = "page_cached" /\ last.ret = "continue"
  /\ \E h \in Hashes :
       /\ Parses(cacheFiles[h])
       /\ \E j \in 1..Len(cacheFiles[h].entries) :
            LET e == cacheFiles[h].entries[j]
            IN /\ HasKey(chunks, e.key)
               /\ chunks[PosOf(chunks, e.key)].propositions # e.propositions
               /\ chunks[PosOf(chunks, e.key)].title # e.title

\* stores a and b hold the same ids and, under each id, chunks with the same
\* id, title, summary, propositions (in order) and index
SameStore(a, b) ==
  /\ Keys(a) = Keys(b)
  /\ Len(a) = Len(b)
  /\ \A i \in 1..Len(a) :
       LET c == a[i]
           d == b[PosOf(b, c.key)]
       IN /\ c.id = d.id
          /\ c.title = d.title
          /\ c.summary = d.summary
          /\ c.propositions = d.propositions
          /\ c.index = d.index

C13_CachedPageNoLLM ==
  /\ last.op = "page_cached" => calls = <<>>
  /\ ~(/\ useCache
       /\ pc \in {"props", "finish"}
       /\ Exists(CacheFileOf(page))
       /\ Parses(CacheFileOf(page)))

\* C14: the key computed for a page is a function of its source, its page
\* number and its text, and of all three: two pages get the same key exactly
\* when they agree on source, page number and text.
C14_KeyOfSourcePageText ==
  \A i, j \in 1..Len(calls) :
    (calls[i].fn = "get_document_hash" /\ calls[j].fn = "get_document_hash") =>
      LET p == calls[i].args[1]
          q == calls[j].args[1]
      IN (p.source = q.source /\ p.page = q.page /\ p.text = q.text)
           <=> (calls[i].out = calls[j].out)

\* the loop has just finished a page, cached or processed, and stands at the
\* loop head again
PageDone ==
  \/ last.op = "finish_page"
  \/ last.op = "page_cached" /\ last.ret = "continue"

C16_CrashKeepsSnapshot ==
  [][(/\ pc # "idle"
      /\ last'.op \in {"crash", "init"}
      /\ Exists(allChunks) /\ Parses(allChunks)) =>
       /\ Exists(allChunks') /\ Parses(allChunks')
       /\ Grows(JsonLoad(allChunks), JsonLoad(allChunks'))]_vars

\* proposition p is one of the propositions of some chunk of store
Holds(store, p) ==
  \E i \in 1..Len(store) :
    \E m \in 1..Len(store[i].propositions) : store[i].propositions[m] = p

\* C17: when the record of a page has been written, it parses and holds every
\* proposition that was extracted from the page, those appended to chunks of
\* earlier pages too, so that loading it into an empty store gives them all.
C17_RecordHoldsPage ==
  [][(pc = "finish" /\ last'.op = "finish_page" /\ ~last'.raised) =>
       LET record == cacheFiles'[GetDocumentHash(page.text)]
       IN /\ Exists(record) /\ Parses(record)
          /\ \A k \in 1..Len(extracted) :
               /\ Holds(chunks, extracted[k])
               /\ Holds(Merge(<<>>, JsonLoad(record)), extracted[k])]_vars

\* C18: the extraction step ends unparsed exactly when the response, its code
\* fence stripped, is not JSON of the propositions schema; it then raises
\* nothing, yields no proposition and leaves the store as it was; and from the
\* end of the loop body the run goes to the loop head, the store unchanged,
\* unless the process stops.
C18_Step ==
  /\ last'.op = "generate_propositions" /\ ~last'.raised =>
       /\ Len(calls') = 1
       /\ calls'[1].fn = "generate_propositions"
       /\ (last'.ret = "unparsed") <=> (calls'[1].out.form \in {"garbage", "badschema"})
       /\ (last'.ret = "parsed") <=> (calls'[1].out.form = "json")
  /\ last'.op = "generate_propositions" /\ last'.ret = "unparsed" =>
       /\ ~last'.raised
       /\ chunks' = chunks
       /\ extracted' = <<>> /\ pending' = <<>>
       /\ pc' = "finish"
  /\ (pc = "finish" /\ last'.op \notin {"init", "crash"}) =>
       /\ last'.op = "finish_page"
       /\ chunks' = chunks
       /\ pc' = "page"

C18_UnparsedExtraction == [][C18_Step]_vars

C18_Witness ==
  /\ last.op = "generate_propositions" /\ last.ret = "unparsed"
  /\ calls[1].out.fenced /\ calls[1].out.form = "garbage"
  /\ pc = "finish"
  /\ Len(chunks) = 1

\* C19: when an LLM call of the append path raises while the title or the
\* summary is regenerated, the proposition is the last of the chunk's
\* propositions, and the chunk carries the title and the summary it had before
\* the append (the ones the title call was given).
C19_AppendFailureKeepsPrior ==
  (last.op = "add_proposition" /\ last.path = "append" /\ last.raised) =>
    /\ HasKey(chunks, last.found)
    /\ LET c == chunks[PosOf(chunks, last.found)]
       IN /\ c.propositions # <<>>
          /\ c.propositions[Len(c.propositions)] = last.p
          /\ \E i \in 1..Len(calls) :
               /\ calls[i].fn = "update_chunk_title"
               /\ c.summary = calls[i].args[2]
               /\ c.title = calls[i].args[3]

\* C20: an LLM call that raises inside load_data_to_chunks (extraction,
\* matcher, summary or title) does not end the call: after the step in which
\* it raised, the loop is still running, at the next proposition of the page
\* or at the next page.
C20_LLMFailureNeverAborts ==
  (/\ last.op \in {"generate_propositions", "add_proposition"}
   /\ last.run
   /\ \E i \in 1..Len(calls) : calls[i].raised) =>
    pc \in {"props", "finish", "page"}

\* C21: a cache file that cannot be written or read changes nothing in the
\* store and does not end the run: when the write of the page's record or of
\* the snapshot raises at the end of the loop body, the store is as it was and
\* the loop is at its head for the next page; when the cached branch raises,
\* the store keeps what it held, a record that does not parse adds nothing,
\* and the page is processed by the extraction next.
C21_Step ==
  /\ (last'.op = "finish_page" /\ last'.raised) =>
       /\ chunks' = chunks
       /\ pc' = "page"
  /\ (last'.op = "page_cached" /\ last'.raised) =>
       /\ pc' = "extract"
       /\ page' \in PageSet
       /\ Len(chunks') >= Len(chunks)
       /\ SubSeq(chunks', 1, Len(chunks)) = chunks
       /\ ~Parses(CacheFileOf(page')) => chunks' = chunks
  /\ (pc = "extract" /\ last'.op \notin {"init", "crash"}) =>
       /\ last'.op = "generate_propositions"
       /\ calls'[1].fn = "generate_propositions"
       /\ calls'[1].args = <<page.text>>

C22_PropositionsNonEmpty ==
  \A i \in 1..Len(chunks) : Len(chunks[i].propositions) >= 1

C22_Witness ==
  /\ last.op = "load_chunks" /\ last.ret = "True"
  /\ Len(chunks) = 2
  /\ \A i \in 1..2 : Len(chunks[i].propositions) = 1

\* C23: when the matcher names a chunk C of the store, add_proposition takes
\* the append path with C; the store then has as many chunks as before, C has
\* its earlier propositions in their order followed by the new one, C's key,
\* id and index are as before, and every other chunk is as it was.
C23_Step ==
  /\ (/\ last'.op = "add_proposition" /\ Len(chunks) > 0
      /\ last'.resp.form = "json"
      /\ last'.resp.value \in Keys(chunks)) =>
       /\ last'.path = "append"
       /\ last'.found = last'.resp.value
  /\ (last'.op = "add_proposition" /\ last'.path = "append") =>
       /\ HasKey(chunks, last'.found)
       /\ Len(chunks') = Len(chunks)
       /\ LET i == PosOf(chunks, last'.found)
          IN /\ chunks'[i].propositions = Append(chunks[i].propositions, last'.p)
             /\ chunks'[i].key = chunks[i].key
             /\ chunks'[i].id = chunks[i].id
             /\ chunks'[i].index = chunks[i].index
             /\ \A j \in 1..Len(chunks) : j # i => chunks'[j] = chunks[j]

C23_AppendFrame == [][C23_Step]_vars

C23_Witness ==
  /\ Added /\ last.path = "append"
  /\ last.resp.fenced
  /\ chunks[PosOf(chunks, last.found)].propositions = <<1, 2>>
  /\ chunks[PosOf(chunks, last.found)].index = 0

\* the add_proposition steps of a page come in the order of the extracted
\* list: the step takes the first proposition not yet added, every earlier one
\* is in the store and no later one is; when the store is not empty the
\* matcher is shown the outline of the store as the earlier steps left it,
\* titles and summaries included; and a step that returns has put its
\* proposition in the store
C24_InOrder ==
  (last'.op = "add_proposition" /\ last'.run) =>
    /\ pc = "props" /\ pending # <<>>
    /\ last'.p = Head(pending)
    /\ \E k \in 1..Len(extracted) :
         /\ extracted[k] = last'.p
         /\ pending = SubSeq(extracted, k, Len(extracted))
         /\ \A j \in 1..k - 1 : Holds(chunks, extracted[j])
         /\ \A j \in k..Len(extracted) : ~Holds(chunks, extracted[j])
    /\ Len(chunks) > 0 =>
         /\ calls'[1].fn = "find_similar_chunk"
         /\ calls'[1].args =
              <<last'.p, [i \in 1..Len(chunks) |->
                           <<chunks[i].id, chunks[i].title, chunks[i].summary>>]>>
    /\ ~last'.raised =>
         /\ pending' = Tail(pending)
         /\ Holds(chunks', last'.p)

\* C24 as stated: the propositions of a page are added one at a time in the
\* order of the response, the matcher sees the result of the earlier ones, and
\* when a step has returned its mutation is on disk: all_chunks.json holds the
\* store before the next proposition is taken.
C24_PersistedBeforeNext ==
  [][/\ C24_InOrder
     /\ (last'.op = "add_proposition" /\ last'.run /\ ~last'.raised) =>
          /\ Exists(allChunks') /\ Parses(allChunks')
          /\ JsonLoad(allChunks') = chunks']_vars

\* C24: the propositions of a page are added one at a time in the order of
\* the response, the matcher sees the result of the earlier ones, and the step
\* writes no file: the record and the snapshot are written when the page ends.
C24_InOrderInMemory ==
  [][/\ C24_InOrder
     /\ (last'.op = "add_proposition" /\ last'.run) =>
          /\ cacheFiles' = cacheFiles
          /\ allChunks' = allChunks]_vars

C24_Witness ==
  /\ last.op = "add_proposition" /\ last.run /\ ~last.raised
  /\ Len(extracted) = 2 /\ last.p = extracted[2]
  /\ calls[1].fn = "find_similar_chunk"
  /\ Len(calls[1].args[2]) = 1
  /\ Holds(chunks, extracted[1])
  /\ ~Exists(allChunks)

\* C25: a page is handled by the merge or by the extraction, never by both:
\* the cached branch hands a page over to the extraction only when its record
\* could not be read, so a page whose record parsed and was merged is not
\* extracted, whatever the snapshot write did.
C25_OnePathPerPage ==
  pc = "extract" =>
    /\ last.op = "page_cached"
    /\ page \in PageSet
    /\ ~(Exists(CacheFileOf(page)) /\ Parses(CacheFileOf(page)))

\* C26: when a seed call of _create_chunk raises, the store is as it was
\* before add_proposition and the proposition is in no chunk; and no chunk of
\* the store is ever without a title or without a summary.
C26_Step ==
  /\ (last'.op = "add_proposition" /\ last'.path = "create" /\ last'.raised) =>
       /\ \E i \in 1..Len(calls') :
            /\ calls'[i].fn \in {"new_chunk_summary", "new_chunk_title"}
            /\ calls'[i].raised
       /\ chunks' = chunks
       /\ ~Holds(chunks', last'.p)
  /\ \A i \in 1..Len(chunks') :
       /\ chunks'[i].title # <<>>
       /\ chunks'[i].summary # <<>>

C26_CreateAllOrNothing == [][C26_Step]_vars

C26_Witness ==
  /\ last.op = "add_proposition" /\ last.path = "create" /\ last.raised
  /\ Len(calls) = 3
  /\ calls[3].fn = "new_chunk_title" /\ calls[3].raised
  /\ Len(chunks) = 1
  /\ ~Holds(chunks, last.p)

\* C27: when the write of the record succeeds, a page whose extraction did
\* not parse gets the empty record; and with use_cache set a page whose record
\* is the empty record is served by the cached branch alone: it never stands
\* in the extraction part of the loop body.
C27_Step ==
  /\ (/\ pc = "finish"
      /\ last.op = "generate_propositions" /\ last.ret = "unparsed"
      /\ last'.op = "finish_page" /\ ~last'.raised) =>
       cacheFiles'[GetDocumentHash(page.text)] = JsonDump(<<>>)
  /\ (useCache' /\ pc' \in {"extract", "props", "finish"} /\ page' \in PageSet) =>
       cacheFiles'[GetDocumentHash(page'.text)] # JsonDump(<<>>)

C27_EmptyRecordCached == [][C27_Step]_vars

\* C28: load_chunks returns False and leaves the store as it was when
\* all_chunks.json is missing or does not parse; otherwise it returns True and
\* the store is exactly what the file holds, whatever the store held before.
C28_Step ==
  last'.op = "load_chunks" =>
    /\ ~last'.raised
    /\ allChunks' = allChunks
    /\ IF Exists(allChunks) /\ Parses(allChunks)
         THEN last'.ret = "True" /\ chunks' = JsonLoad(allChunks)
         ELSE last'.ret = "False" /\ chunks' = chunks

C28_LoadReplaces == [][C28_Step]_vars

C28_Witness ==
  /\ last.op = "load_chunks" /\ last.ret = "False"
  /\ allChunks = Corrupt
  /\ Len(chunks) = 2

\* every record of a dict of chunk records is stored under its own id
C29_KeyedById(store) == \A i \in 1..Len(store) : store[i].key = store[i].id

\* C29: in every reachable state each cluster of the store is stored under the
\* key that its id field holds, whether _create_chunk made it or the cached
\* branch merged it from a per-document record; the records and the snapshot
\* that the program wrote are keyed the same way.
C29_KeyIsId ==
  /\ C29_KeyedById(chunks)
  /\ C29_KeyedById(JsonLoad(allChunks))
  /\ \A h \in Hashes : C29_KeyedById(JsonLoad(cacheFiles[h]))

C29_Witness ==
  /\ last.op = "page_cached" /\ last.ret = "continue"
  /\ Len(chunks) = 2
  /\ \E h \in Hashes :
       /\ Parses(cacheFiles[h])
       /\ Len(JsonLoad(cacheFiles[h])) = 1
       /\ chunks[2] = JsonLoad(cacheFiles[h])[1]
       /\ chunks[1].index = 0 /\ chunks[2].index = 0

\* C30: after an add_documents call, whether it returned or raised and whether
\* or not its points carried ids already stored, id_to_index and index_to_id
\* are inverses of each other, the positions 0..ntotal-1 of the vector index
\* are exactly the positions mapped, and as many ids are mapped as the index
\* holds vectors.
C30_MapsMatchIndex ==
  faissLast.op = "add_documents" =>
    /\ \A id \in DOMAIN id_to_index :
         /\ id_to_index[id] \in DOMAIN index_to_id
         /\ index_to_id[id_to_index[id]] = id
    /\ \A i \in DOMAIN index_to_id :
         /\ index_to_id[i] \in DOMAIN id_to_index
         /\ id_to_index[index_to_id[i]] = i
    /\ DOMAIN index_to_id = 0..(ntotal - 1)
    /\ Cardinality(DOMAIN id_to_index) = ntotal

====
